---- MODULE Spec2Model ----
(***************************************************************************)
(* A model of the PDF split / collect / merge utilities and of the OCR     *)
(* result aggregator (split_pdf.py, combine_pdf.py, combine_ocr_json.py).  *)
(*                                                                         *)
(* Strings are sequences of Unicode code points, so that comparison,       *)
(* lowercasing, digit tests and decimal conversion are computed as Python  *)
(* computes them.  A path is a record [abs, parts]: whether it is anchored *)
(* at the root, and its components below the anchor.                       *)
(***************************************************************************)
EXTENDS Integers, Sequences, FiniteSets, TLC

VARIABLES
    fs,            \* the filesystem: [dirs: set of absolute parts, files: absolute parts -> content]
    pc,            \* position of the running program
    paths,         \* collect_pdfs: the argument list
    recursive,     \* collect_pdfs: the recursive flag
    unique_pdfs,   \* collect_pdfs: the de-duplicated list before the final sort
    collected,     \* collect_pdfs: what the call returned or raised
    input_paths,   \* merge_pdfs: the ordered list of files to merge
    output_path,   \* merge_pdfs: the destination
    overwrite,     \* merge_pdfs: the overwrite flag
    output_pdf,    \* merge_pdfs: the output document [open, pages]
    open_inputs,   \* merge_pdfs: the places of input_paths whose document is open
    idx,           \* merge_pdfs: the place of the input being processed
    merge_result,  \* merge_pdfs: "running", "ok", or the error raised
    source_path,   \* split_pdf: the document to split
    output_dir,    \* split_pdf: the directory the pages go to
    reader,        \* split_pdf: the source document [open, pages]
    page_number,   \* split_pdf: the loop variable (0-based)
    generated_files, \* split_pdf: the paths written so far
    split_result,  \* split_pdf: "none", "running", "ok", or the error raised [type, msg]
    input_dir,     \* combine_ocr_json_files: the directory of the result files
    discovered,    \* combine_ocr_json_files: the files in the order glob listed them
    json_files,    \* combine_ocr_json_files: the files after the sort
    combined_data, \* combine_ocr_json_files: the aggregate being built
    file_i,        \* combine_ocr_json_files: the loop index (0-based)
    agg_result,    \* combine_ocr_json_files: "none", "running", "no_files", "written", "write_failed"
    fs_before      \* the filesystem as it was when the running operation was called

collectVars == <<paths, recursive, unique_pdfs, collected>>
splitVars == <<source_path, output_dir, reader, page_number, generated_files, split_result>>
aggVars == <<input_dir, discovered, json_files, combined_data, file_i, agg_result>>
mergeArgs == <<input_paths, output_path, overwrite>>
mergeVars == <<input_paths, output_path, overwrite, output_pdf, open_inputs, idx, merge_result>>

(* ------------------------------ bounds -------------------------------- *)

\* longest argument list given to collect_pdfs
MaxInputs == 3

\* longest list of files given to merge_pdfs directly
MaxMergeInputs == 3

\* most pages of a document given to split_pdf
MaxPages == 11

\* most result files in the directory given to combine_ocr_json_files
MaxResultFiles == 3

(* --------------------------- Python strings --------------------------- *)

\* "0".."9": the characters \d matches and int() converts
IsDecimal(c) == c \in 48..57

\* a character for which str.isdigit() holds although \d does not match it
\* and int() rejects it (SUPERSCRIPT TWO, U+00B2)
IsSuperscript(c) == c = 178

str_isdigit(s) == Len(s) > 0 /\ \A i \in 1..Len(s) : IsDecimal(s[i]) \/ IsSuperscript(s[i])

\* whether int(s) succeeds, for a string s on which isdigit() holds
int_ok(s) == \A i \in 1..Len(s) : IsDecimal(s[i])

RECURSIVE int_of(_)
int_of(s) == IF s = <<>> THEN 0
             ELSE 10 * int_of(SubSeq(s, 1, Len(s) - 1)) + (s[Len(s)] - 48)

\* str(n) for n >= 0
RECURSIVE str_of(_)
str_of(n) == IF n < 10 THEN <<48 + n>> ELSE Append(str_of(n \div 10), 48 + (n % 10))

lower_char(c) == IF c \in 65..90 THEN c + 32 ELSE c

str_lower(s) == [i \in 1..Len(s) |-> lower_char(s[i])]

\* s < t on Python strings: by code point, a proper prefix first
RECURSIVE StrLess(_, _)
StrLess(s, t) ==
    IF t = <<>> THEN FALSE
    ELSE IF s = <<>> THEN TRUE
    ELSE IF s[1] # t[1] THEN s[1] < t[1]
    ELSE StrLess(Tail(s), Tail(t))

EndsWith(s, suf) ==
    Len(s) >= Len(suf) /\ SubSeq(s, Len(s) - Len(suf) + 1, Len(s)) = suf

\* re.split(r"(\d+)", s): text runs at the odd places, digit runs at the even
\* ones; the list starts and ends with a (possibly empty) text run
RECURSIVE re_split_from(_, _, _, _, _)
re_split_from(s, i, cur, dig, acc) ==
    IF i > Len(s) THEN (IF dig THEN acc \o <<cur, <<>>>> ELSE Append(acc, cur))
    ELSE IF IsDecimal(s[i]) = dig THEN re_split_from(s, i + 1, Append(cur, s[i]), dig, acc)
    ELSE re_split_from(s, i + 1, <<s[i]>>, ~dig, Append(acc, cur))

re_split(s) == re_split_from(s, 1, <<>>, FALSE, <<>>)

(* ------------------------------ pathlib ------------------------------- *)

DotPdf == <<46, 112, 100, 102>>                    \* ".pdf"

\* position of the last "." of a name, 0 when there is none
LastDot(name) ==
    LET ds == {i \in 1..Len(name) : name[i] = 46}
    IN  IF ds = {} THEN 0 ELSE CHOOSE i \in ds : \A j \in ds : j <= i

\* PurePath.suffix of a final component: from the last dot, unless that dot
\* is the first or the last character
name_suffix(name) ==
    LET k == LastDot(name)
    IN  IF k > 1 /\ k < Len(name) THEN SubSeq(name, k, Len(name)) ELSE <<>>

name_stem(name) == SubSeq(name, 1, Len(name) - Len(name_suffix(name)))

path_name(p) == IF p.parts = <<>> THEN <<>> ELSE p.parts[Len(p.parts)]
path_suffix(p) == name_suffix(path_name(p))
path_stem(p) == name_stem(path_name(p))

Abs(parts) == [abs |-> TRUE, parts |-> parts]
Rel(parts) == [abs |-> FALSE, parts |-> parts]

\* the working directory, /w
Cwd == << <<119>> >>

\* Path.resolve(): the canonical absolute form (the filesystems modelled
\* hold no symbolic link and no path spells "..")
resolve(p) == IF p.abs THEN p ELSE [abs |-> TRUE, parts |-> Cwd \o p.parts]

exists(f, p) == resolve(p).parts \in f.dirs \cup DOMAIN f.files
is_dir(f, p) == resolve(p).parts \in f.dirs

\* parts < parts: component-wise, a proper prefix first
RECURSIVE PartsLess(_, _)
PartsLess(a, b) ==
    IF b = <<>> THEN FALSE
    ELSE IF a = <<>> THEN TRUE
    ELSE IF a[1] # b[1] THEN StrLess(a[1], b[1])
    ELSE PartsLess(Tail(a), Tail(b))

PathLess(p, q) == PartsLess(p.parts, q.parts)

\* sorted(S) for a set of paths with one anchor
RECURSIVE SortedPaths(_)
SortedPaths(S) ==
    IF S = {} THEN <<>>
    ELSE LET m == CHOOSE x \in S : \A y \in S \ {x} : PathLess(x, y)
         IN  <<m>> \o SortedPaths(S \ {m})

\* path.glob("*.pdf") or path.glob("**/*.pdf"): the files below the directory
\* (direct children only unless recursive) whose name ends in ".pdf", spelled
\* as the directory was spelled
glob_pdf(f, p, rec) ==
    LET base == resolve(p).parts
    IN  { [abs |-> p.abs, parts |-> p.parts \o SubSeq(q, Len(base) + 1, Len(q))] :
            q \in { r \in DOMAIN f.files :
                      /\ Len(r) > Len(base)
                      /\ SubSeq(r, 1, Len(base)) = base
                      /\ (rec \/ Len(r) = Len(base) + 1)
                      /\ EndsWith(r[Len(r)], DotPdf) } }

(* ---------------------------- collect_pdfs ---------------------------- *)

\* lines 39-52: the files named directly or found in the directories named;
\* "missing" marks the point where FileNotFoundError is raised
RECURSIVE gather(_, _, _, _)
gather(f, ps, rec, acc) ==
    IF ps = <<>> THEN [missing |-> FALSE, files |-> acc]
    ELSE LET p == Head(ps)
         IN  IF ~exists(f, p) THEN [missing |-> TRUE, files |-> acc]
             ELSE IF is_dir(f, p)
                  THEN gather(f, Tail(ps), rec, acc \o SortedPaths(glob_pdf(f, p, rec)))
             ELSE IF str_lower(path_suffix(p)) = DotPdf
                  THEN gather(f, Tail(ps), rec, Append(acc, p))
             ELSE gather(f, Tail(ps), rec, acc)

InSeq(x, s) == \E i \in 1..Len(s) : s[i] = x

\* lines 55-60: a path is skipped when the same spelling was seen before;
\* what is kept is appended resolved
RECURSIVE dedupe(_, _, _)
dedupe(files, seen, acc) ==
    IF files = <<>> THEN acc
    ELSE IF Head(files) \in seen THEN dedupe(Tail(files), seen, acc)
    ELSE dedupe(Tail(files), seen \cup {Head(files)}, Append(acc, resolve(Head(files))))

\* line 70: one element of the key
key_part(part) ==
    IF str_isdigit(part)
    THEN (IF int_ok(part) THEN [t |-> "int", v |-> int_of(part)] ELSE [t |-> "ValueError"])
    ELSE [t |-> "str", v |-> str_lower(part)]

\* the key without the integer conversion: digit runs compare as text
natural_key_lexical(p) ==
    LET parts == re_split(path_stem(p))
    IN  [i \in 1..Len(parts) |-> [t |-> "str", v |-> str_lower(parts[i])]]

\* lines 63-71
natural_key(p) ==
    LET parts == re_split(path_stem(p))
    IN  [i \in 1..Len(parts) |-> key_part(parts[i])]

key_raises(k) == \E i \in 1..Len(k) : k[i].t = "ValueError"

\* x < y on two key elements; the places of two keys hold the same type of
\* element (text at the odd places, integers at the even ones)
ElemLess(x, y) ==
    IF x.t = "int" /\ y.t = "int" THEN x.v < y.v
    ELSE IF x.t = "str" /\ y.t = "str" THEN StrLess(x.v, y.v)
    ELSE FALSE

\* a < b on Python lists
RECURSIVE KeyLess(_, _)
KeyLess(a, b) ==
    IF b = <<>> THEN FALSE
    ELSE IF a = <<>> THEN TRUE
    ELSE IF a[1] # b[1] THEN ElemLess(a[1], b[1])
    ELSE KeyLess(Tail(a), Tail(b))

\* insertion of x behind every element that is not greater: a stable sort
RECURSIVE insert_stable(_, _)
insert_stable(sorted, x) ==
    IF sorted = <<>> THEN <<x>>
    ELSE IF KeyLess(natural_key(x), natural_key(Head(sorted)))
         THEN <<x>> \o sorted
         ELSE <<Head(sorted)>> \o insert_stable(Tail(sorted), x)

\* the list left in the order the directories were listed
sorted_natural_omitted(s) == s

\* line 73: sorted(unique_pdfs, key=_natural_key)
RECURSIVE sorted_natural(_)
sorted_natural(s) ==
    IF s = <<>> THEN <<>>
    ELSE insert_stable(sorted_natural(SubSeq(s, 1, Len(s) - 1)), s[Len(s)])

\* collect_pdfs as a whole: what it returns or raises
collect_pdfs(f, ps, rec) ==
    LET g == gather(f, ps, rec, <<>>)
        u == dedupe(g.files, {}, <<>>)
    IN  IF g.missing THEN [status |-> "FileNotFoundError", unique |-> <<>>, value |-> <<>>]
        ELSE IF \E i \in 1..Len(u) : key_raises(natural_key(u[i]))
             THEN [status |-> "ValueError", unique |-> u, value |-> <<>>]
        ELSE [status |-> "ok", unique |-> u, value |-> sorted_natural(u)]

(* ----------------------------- merge_pdfs ------------------------------ *)

NoDocument == [open |-> FALSE, pages |-> <<>>]

\* merge_pdfs not called yet
MergeIdle ==
    /\ input_paths = <<>>
    /\ output_path = Abs(<<>>)
    /\ overwrite = FALSE
    /\ output_pdf = NoDocument
    /\ open_inputs = {}
    /\ idx = 0
    /\ merge_result = "none"

\* the two checks in the other order
merge_precheck_exists_first(f, ins, out, ow) ==
    IF exists(f, out) /\ ~ow THEN "FileExistsError"
    ELSE IF ins = <<>> THEN "ValueError"
    ELSE "ok"

\* lines 88-94: the two checks made before anything is opened
merge_precheck(f, ins, out, ow) ==
    IF ins = <<>> THEN "ValueError"
    ELSE IF exists(f, out) /\ ~ow THEN "FileExistsError"
    ELSE "ok"

\* line 102, fitz.open(pdf_file): succeeds on a file that holds a document
can_open(f, p) ==
    /\ resolve(p).parts \in DOMAIN f.files
    /\ f.files[resolve(p).parts].kind = "pdf"
    /\ f.files[resolve(p).parts].complete

pages_of(f, p) == f.files[resolve(p).parts].pages

\* the input document left open
src_exit_leak(open, i) == open

\* line 102, leaving the with block: the input document is closed
src_exit(open, i) == open \ {i}

parent_exists(f, p) ==
    LET q == resolve(p).parts IN Len(q) > 0 /\ SubSeq(q, 1, Len(q) - 1) \in f.dirs

write_file(f, p, content) ==
    [f EXCEPT !.files = [q \in DOMAIN f.files \cup {resolve(p).parts} |->
                            IF q = resolve(p).parts THEN content ELSE f.files[q]]]

\* line 104, output_pdf.save(output_path): the document is written straight
\* to output_path
save_document(f, p, pages) ==
    write_file(f, p, [kind |-> "pdf", pages |-> pages, complete |-> TRUE])

\* a save that fails after k pages were written: what was written stays
save_interrupted(f, p, pages, k) ==
    write_file(f, p, [kind |-> "pdf", pages |-> SubSeq(pages, 1, k), complete |-> FALSE])

\* lines 88-94
MergeCheck ==
    /\ pc = "merge"
    /\ LET r == merge_precheck(fs, input_paths, output_path, overwrite)
       IN  /\ merge_result' = (IF r = "ok" THEN "running" ELSE r)
           /\ pc' = (IF r = "ok" THEN "merge_open" ELSE "merge_done")
    /\ fs_before' = fs
    /\ UNCHANGED <<aggVars, fs, collectVars, splitVars, mergeArgs, output_pdf, open_inputs, idx>>

\* line 98
MergeOpenOutput ==
    /\ pc = "merge_open"
    /\ output_pdf' = [open |-> TRUE, pages |-> <<>>]
    /\ idx' = 1
    /\ pc' = "merge_loop"
    /\ UNCHANGED <<aggVars, fs, collectVars, splitVars, mergeArgs, open_inputs, merge_result, fs_before>>

\* line 102: the next input opens
MergeOpenInput ==
    /\ pc = "merge_loop"
    /\ idx <= Len(input_paths)
    /\ can_open(fs, input_paths[idx])
    /\ open_inputs' = open_inputs \cup {idx}
    /\ pc' = "merge_insert"
    /\ UNCHANGED <<aggVars, fs, collectVars, splitVars, mergeArgs, output_pdf, idx, merge_result, fs_before>>

\* line 102: the next input is missing or holds no document; fitz.open raises
MergeOpenInputFail ==
    /\ pc = "merge_loop"
    /\ idx <= Len(input_paths)
    /\ ~can_open(fs, input_paths[idx])
    /\ merge_result' = "OpenError"
    /\ pc' = "merge_finally"
    /\ UNCHANGED <<aggVars, fs, collectVars, splitVars, mergeArgs, output_pdf, open_inputs, idx, fs_before>>

\* line 103
MergeInsert ==
    /\ pc = "merge_insert"
    /\ output_pdf' = [output_pdf EXCEPT !.pages = @ \o pages_of(fs, input_paths[idx])]
    /\ pc' = "merge_exit_with"
    /\ UNCHANGED <<aggVars, fs, collectVars, splitVars, mergeArgs, open_inputs, idx, merge_result, fs_before>>

\* line 102, the end of the with block
MergeCloseInput ==
    /\ pc = "merge_exit_with"
    /\ open_inputs' = src_exit(open_inputs, idx)
    /\ idx' = idx + 1
    /\ pc' = "merge_loop"
    /\ UNCHANGED <<aggVars, fs, collectVars, splitVars, mergeArgs, output_pdf, merge_result, fs_before>>

\* line 104: the save succeeds
MergeSave ==
    /\ pc = "merge_loop"
    /\ idx > Len(input_paths)
    /\ parent_exists(fs, output_path)
    /\ fs' = save_document(fs, output_path, output_pdf.pages)
    /\ merge_result' = "ok"
    /\ pc' = "merge_finally"
    /\ UNCHANGED <<aggVars, collectVars, splitVars, mergeArgs, output_pdf, open_inputs, idx, fs_before>>

\* line 104: the save fails partway (the disk fills, the device fails)
MergeSaveInterrupted ==
    /\ pc = "merge_loop"
    /\ idx > Len(input_paths)
    /\ parent_exists(fs, output_path)
    /\ \E k \in 0..(Len(output_pdf.pages) - 1) :
          fs' = save_interrupted(fs, output_path, output_pdf.pages, k)
    /\ merge_result' = "SaveError"
    /\ pc' = "merge_finally"
    /\ UNCHANGED <<aggVars, collectVars, splitVars, mergeArgs, output_pdf, open_inputs, idx, fs_before>>

\* line 104: the output cannot be created at all (no such directory)
MergeSaveRefused ==
    /\ pc = "merge_loop"
    /\ idx > Len(input_paths)
    /\ ~parent_exists(fs, output_path)
    /\ merge_result' = "SaveError"
    /\ pc' = "merge_finally"
    /\ UNCHANGED <<aggVars, fs, collectVars, splitVars, mergeArgs, output_pdf, open_inputs, idx, fs_before>>

\* lines 106-107
MergeFinally ==
    /\ pc = "merge_finally"
    /\ output_pdf' = [output_pdf EXCEPT !.open = FALSE]
    /\ pc' = "merge_done"
    /\ UNCHANGED <<aggVars, fs, collectVars, splitVars, mergeArgs, open_inputs, idx, merge_result, fs_before>>

(* ------------------------------ split_pdf ------------------------------ *)

\* split_pdf not called
SplitIdle ==
    /\ source_path = Abs(<<>>)
    /\ output_dir = Abs(<<>>)
    /\ reader = NoDocument
    /\ page_number = 0
    /\ generated_files = <<>>
    /\ split_result = [type |-> "none", msg |-> ""]

Ok == [type |-> "ok", msg |-> ""]
Running == [type |-> "running", msg |-> ""]

\* the extension checked before the existence
split_precheck_suffix_first(f, src) ==
    IF str_lower(path_suffix(src)) # DotPdf
    THEN [type |-> "ValueError", msg |-> "Input file must have a .pdf extension"]
    ELSE IF ~exists(f, src)
    THEN [type |-> "FileNotFoundError", msg |-> "Input file not found"]
    ELSE IF ~can_open(f, src)
    THEN [type |-> "FileDataError", msg |-> "cannot open document"]
    ELSE IF Len(pages_of(f, src)) = 0
    THEN [type |-> "ValueError", msg |-> "The PDF contains no pages to split"]
    ELSE Ok

\* lines 34-42: what split_pdf raises before it writes, or Ok
split_precheck(f, src) ==
    IF ~exists(f, src)
    THEN [type |-> "FileNotFoundError", msg |-> "Input file not found"]
    ELSE IF str_lower(path_suffix(src)) # DotPdf
    THEN [type |-> "ValueError", msg |-> "Input file must have a .pdf extension"]
    ELSE IF ~can_open(f, src)
    THEN [type |-> "FileDataError", msg |-> "cannot open document"]
    ELSE IF Len(pages_of(f, src)) = 0
    THEN [type |-> "ValueError", msg |-> "The PDF contains no pages to split"]
    ELSE Ok

\* line 44, mkdir(parents=True, exist_ok=True)
mkdir_parents(f, dir) ==
    LET q == resolve(dir).parts
    IN  [f EXCEPT !.dirs = @ \cup { SubSeq(q, 1, k) : k \in 0..Len(q) }]

Page_ == <<95,112,97,103,101,95>>                  \* "_page_"

\* line 50: output_dir / f"{source_path.stem}_page_{page_number + 1}.pdf"
page_file(dir, src, n) ==
    [abs |-> dir.abs,
     parts |-> Append(dir.parts, path_stem(src) \o Page_ \o str_of(n + 1) \o DotPdf)]

\* lines 34-42
SplitCheck ==
    /\ pc = "split"
    /\ LET r == split_precheck(fs, source_path)
       IN  /\ split_result' = (IF r = Ok THEN Running ELSE r)
           /\ pc' = (IF r = Ok THEN "split_mkdir" ELSE "split_done")
           \* line 40: the reader is open from here on, and stays open when
           \* the empty document is refused on line 42
           /\ reader' = IF r.type \in {"FileNotFoundError", "FileDataError"}
                           \/ str_lower(path_suffix(source_path)) # DotPdf
                        THEN reader
                        ELSE [open |-> TRUE, pages |-> pages_of(fs, source_path)]
    /\ fs_before' = fs
    /\ UNCHANGED <<aggVars, fs, collectVars, mergeVars, source_path, output_dir, page_number, generated_files>>

\* lines 44-45
SplitMkdir ==
    /\ pc = "split_mkdir"
    /\ fs' = mkdir_parents(fs, output_dir)
    /\ generated_files' = <<>>
    /\ page_number' = 0
    /\ pc' = "split_loop"
    /\ UNCHANGED <<aggVars, collectVars, mergeVars, source_path, output_dir, reader, split_result, fs_before>>

\* lines 47-54: one page is written
SplitPage ==
    /\ pc = "split_loop"
    /\ page_number < Len(reader.pages)
    /\ LET output_file == page_file(output_dir, source_path, page_number)
       IN  /\ fs' = save_document(fs, output_file, <<reader.pages[page_number + 1]>>)
           /\ generated_files' = Append(generated_files, output_file)
    /\ page_number' = page_number + 1
    /\ UNCHANGED <<aggVars, pc, collectVars, mergeVars, source_path, output_dir, reader, split_result, fs_before>>

\* line 51: the save of a page fails; the error propagates, the partial file
\* and the files written before stay, the reader is not closed
SplitPageSaveFails ==
    /\ pc = "split_loop"
    /\ page_number < Len(reader.pages)
    /\ fs' = save_interrupted(fs, page_file(output_dir, source_path, page_number),
                              <<reader.pages[page_number + 1]>>, 0)
    /\ split_result' = [type |-> "SaveError", msg |-> "cannot save"]
    /\ pc' = "split_done"
    /\ UNCHANGED <<aggVars, collectVars, mergeVars, source_path, output_dir, reader, page_number,
                   generated_files, fs_before>>

\* lines 56-57
SplitReturn ==
    /\ pc = "split_loop"
    /\ page_number = Len(reader.pages)
    /\ reader' = [reader EXCEPT !.open = FALSE]
    /\ split_result' = Ok
    /\ pc' = "split_done"
    /\ UNCHANGED <<aggVars, fs, collectVars, mergeVars, source_path, output_dir, page_number,
                   generated_files, fs_before>>

(* ------------------------- combine_pdf.main ---------------------------- *)

\* the pages written by split_pdf are handed to combine_pdf: its inputs are
\* the directory they were written to
RunCombine ==
    /\ pc = "split_done"
    /\ split_result = Ok
    /\ paths' = <<output_dir>>
    /\ pc' = "collect"
    /\ UNCHANGED <<aggVars, fs, recursive, unique_pdfs, collected, mergeVars, splitVars, fs_before>>

\* lines 169-170: what collect_pdfs returned goes to merge_pdfs
MainMerge ==
    /\ pc = "collected"
    /\ collected.status = "ok"
    /\ input_paths' = collected.value
    /\ pc' = "merge"
    /\ UNCHANGED <<aggVars, fs, collectVars, splitVars, output_path, overwrite, output_pdf,
                   open_inputs, idx, merge_result, fs_before>>


(* ----------------------- combine_ocr_json_files ------------------------ *)

NoData == [document_info |-> [total_pages |-> 0, source_directory |-> Abs(<<>>),
                              combined_timestamp |-> "None"],
           pages |-> <<>>]

\* combine_ocr_json_files not called
AggIdle ==
    /\ input_dir = Abs(<<>>)
    /\ discovered = <<>>
    /\ json_files = <<>>
    /\ combined_data = NoData
    /\ file_i = 0
    /\ agg_result = "none"

Res_Json == <<95,114,101,115,46,106,115,111,110>>  \* "_res.json"

\* lines 22-23, glob.glob(input_dir/"*_res.json"): the files of the directory
\* whose name ends in "_res.json"
glob_res(f, dir) ==
    LET base == resolve(dir).parts
    IN  { [abs |-> dir.abs, parts |-> Append(dir.parts, q[Len(q)])] :
            q \in { r \in DOMAIN f.files :
                      /\ Len(r) = Len(base) + 1
                      /\ SubSeq(r, 1, Len(base)) = base
                      /\ EndsWith(r[Len(r)], Res_Json) } }

\* the orders in which a listing may return the files of a set
Orderings(X) ==
    { s \in [1..Cardinality(X) -> X] : \A a, b \in 1..Cardinality(X) : a # b => s[a] # s[b] }

\* s.split("_")
RECURSIVE str_split_from(_, _, _, _)
str_split_from(s, k, cur, acc) ==
    IF k > Len(s) THEN Append(acc, cur)
    ELSE IF s[k] = 95 THEN str_split_from(s, k + 1, <<>>, Append(acc, cur))
    ELSE str_split_from(s, k + 1, Append(cur, s[k]), acc)

str_split(s) == str_split_from(s, 1, <<>>, <<>>)

\* the value of the first run of decimal digits anywhere in the name
extract_page_number_first_run(filename) ==
    LET runs == re_split(path_name(filename))
    IN  IF Len(runs) >= 2 THEN int_of(runs[2]) ELSE 0

\* lines 30-40: the first part between underscores on which isdigit() holds,
\* converted; 0 when there is none, and 0 when int() raises (the bare except)
extract_page_number(filename) ==
    LET parts == str_split(path_name(filename))
        digit == { k \in 1..Len(parts) : str_isdigit(parts[k]) }
    IN  IF digit = {} THEN 0
        ELSE LET first == CHOOSE k \in digit : \A m \in digit : k <= m
             IN  IF int_ok(parts[first]) THEN int_of(parts[first]) ELSE 0

RECURSIVE insert_by_page(_, _)
insert_by_page(sorted, x) ==
    IF sorted = <<>> THEN <<x>>
    ELSE IF extract_page_number(x) < extract_page_number(Head(sorted))
         THEN <<x>> \o sorted
         ELSE <<Head(sorted)>> \o insert_by_page(Tail(sorted), x)

\* line 42, json_files.sort(key=extract_page_number): a stable sort
RECURSIVE sort_by_page(_)
sort_by_page(s) ==
    IF s = <<>> THEN <<>>
    ELSE insert_by_page(sort_by_page(SubSeq(s, 1, Len(s) - 1)), s[Len(s)])

page_record(json_file, k, page_data) ==
    [source_file |-> path_name(json_file),
     page_number |-> extract_page_number(json_file),
     page_index  |-> IF page_data.has_index THEN page_data.page_index ELSE k,
     input_path  |-> page_data.input_path,
     ocr_data    |-> page_data]

\* a loop body that accepts every value that parses
process_file_any_json(f, json_file, k) ==
    LET page_data == f.files[resolve(json_file).parts]
    IN  IF page_data.type = "malformed"
        THEN [ok |-> FALSE, info |-> page_record(json_file, k, page_data)]
        ELSE [ok |-> TRUE, info |-> page_record(json_file, k, page_data)]

\* lines 56-75, one turn of the loop: json.load raises on a file that does
\* not parse, page_data.get raises on a value that is no object; either way
\* the file is reported and skipped
process_file(f, json_file, k) ==
    LET page_data == f.files[resolve(json_file).parts]
    IN  IF page_data.type # "object"
        THEN [ok |-> FALSE, info |-> page_record(json_file, k, page_data)]
        ELSE [ok |-> TRUE, info |-> page_record(json_file, k, page_data)]

\* line 46: the count written to document_info
total_pages_of(files, pages) == Len(files)

Combined_Json == <<99,111,109,98,105,110,101,100,95,111,99,114,95,114,101,115,117,108,116,115,46,106,115,111,110>>

\* the default output_file, "combined_ocr_results.json"
output_file == Rel(<<Combined_Json>>)

\* lines 25-27: nothing matches; the function returns without writing
AggNoFiles ==
    /\ pc = "aggregate"
    /\ glob_res(fs, input_dir) = {}
    /\ agg_result' = "no_files"
    /\ pc' = "agg_done"
    /\ fs_before' = fs
    /\ UNCHANGED <<fs, collectVars, mergeVars, splitVars, input_dir, discovered, json_files,
                   combined_data, file_i>>

\* lines 23-51: the listing (in an order of the filesystem's choosing), the
\* sort, the empty aggregate
AggDiscover ==
    /\ pc = "aggregate"
    /\ glob_res(fs, input_dir) # {}
    /\ \E order \in Orderings(glob_res(fs, input_dir)) :
          LET sorted == sort_by_page(order)
          IN  /\ discovered' = order
              /\ json_files' = sorted
              /\ combined_data' =
                    [document_info |-> [total_pages |-> total_pages_of(sorted, <<>>),
                                        source_directory |-> input_dir,
                                        combined_timestamp |-> "None"],
                     pages |-> <<>>]
    /\ file_i' = 0
    /\ agg_result' = "running"
    /\ pc' = "agg_loop"
    /\ fs_before' = fs
    /\ UNCHANGED <<fs, collectVars, mergeVars, splitVars, input_dir>>

\* lines 55-71: the file parses and its record is appended
AggAppend ==
    /\ pc = "agg_loop"
    /\ file_i < Len(json_files)
    /\ LET r == process_file(fs, json_files[file_i + 1], file_i)
       IN  /\ r.ok
           /\ combined_data' = [combined_data EXCEPT !.pages = Append(@, r.info)]
    /\ file_i' = file_i + 1
    /\ UNCHANGED <<fs, pc, collectVars, mergeVars, splitVars, input_dir, discovered, json_files,
                   agg_result, fs_before>>

\* lines 73-75: the file raised; it is reported and skipped
AggSkip ==
    /\ pc = "agg_loop"
    /\ file_i < Len(json_files)
    /\ ~process_file(fs, json_files[file_i + 1], file_i).ok
    /\ file_i' = file_i + 1
    /\ UNCHANGED <<fs, pc, collectVars, mergeVars, splitVars, input_dir, discovered, json_files,
                   combined_data, agg_result, fs_before>>

Stamped(data) == [data EXCEPT !.document_info.combined_timestamp = "now"]

\* lines 77-88: the timestamp, and the aggregate written to output_file
AggWrite ==
    /\ pc = "agg_loop"
    /\ file_i = Len(json_files)
    /\ combined_data' = Stamped(combined_data)
    /\ fs' = write_file(fs, output_file, [kind |-> "json", doc |-> Stamped(combined_data), complete |-> TRUE])
    /\ agg_result' = "written"
    /\ pc' = "agg_done"
    /\ UNCHANGED <<collectVars, mergeVars, splitVars, input_dir, discovered, json_files, file_i, fs_before>>

\* lines 90-91: the write raises; the error is printed, the file opened for
\* writing holds no document
AggWriteFails ==
    /\ pc = "agg_loop"
    /\ file_i = Len(json_files)
    /\ combined_data' = Stamped(combined_data)
    /\ fs' = write_file(fs, output_file, [kind |-> "json", doc |-> NoData, complete |-> FALSE])
    /\ agg_result' = "write_failed"
    /\ pc' = "agg_done"
    /\ UNCHANGED <<collectVars, mergeVars, splitVars, input_dir, discovered, json_files, file_i, fs_before>>


(* ------------------- the filesystem of the collect runs ---------------- *)

D == <<100>>                                       \* "d"
S == <<115>>                                       \* "s"
E == <<101>>                                       \* "e"
A_Page2 == <<97,95,112,97,103,101,95,50,46,112,100,102>>        \* "a_page_2.pdf"
A_Page9 == <<97,95,112,97,103,101,95,57,46,112,100,102>>        \* "a_page_9.pdf"
A_Page10 == <<97,95,112,97,103,101,95,49,48,46,112,100,102>>    \* "a_page_10.pdf"
Upper_Page9 == <<65,95,112,97,103,101,95,57,46,112,100,102>>    \* "A_page_9.pdf"
B3 == <<98,95,51,46,112,100,102>>                               \* "b_3.pdf"
C_PDF == <<99,46,80,68,70>>                                     \* "c.PDF"
N_Txt == <<110,46,116,120,116>>                                 \* "n.txt"
Sup_Pdf == <<120,95,178,46,112,100,102>>                        \* "x_2.pdf" with a superscript 2
Sup1_Pdf == <<178,49,46,112,100,102>>                           \* superscript 2, "1.pdf"
Missing_Pdf == <<122,122,46,112,100,102>>                       \* "zz.pdf"

OnePage == [kind |-> "pdf", pages |-> <<1>>, complete |-> TRUE]

CollectFiles ==
    { Cwd \o <<D, A_Page2>>, Cwd \o <<D, A_Page9>>, Cwd \o <<D, A_Page10>>,
      Cwd \o <<D, Upper_Page9>>, Cwd \o <<D, N_Txt>>, Cwd \o <<D, C_PDF>>,
      Cwd \o <<D, S, B3>>, Cwd \o <<E, Sup_Pdf>>, Cwd \o <<E, Sup1_Pdf>> }

CollectFs ==
    [dirs  |-> { <<>>, Cwd, Cwd \o <<D>>, Cwd \o <<D, S>>, Cwd \o <<E>> },
     files |-> [q \in CollectFiles |-> OnePage]]

\* the paths a caller may pass: directories and files, relative and absolute,
\* a missing file, a file of another type
CollectInputs ==
    { Rel(<<D>>), Abs(Cwd \o <<D>>),
      Rel(<<D, A_Page10>>), Abs(Cwd \o <<D, A_Page10>>),
      Rel(<<D, A_Page9>>), Rel(<<D, Upper_Page9>>), Rel(<<D, A_Page2>>),
      Rel(<<D, C_PDF>>), Rel(<<D, N_Txt>>), Rel(<<D, Missing_Pdf>>),
      Rel(<<E, Sup_Pdf>>), Rel(<<E, Sup1_Pdf>>) }

SeqsUpTo(X, n) == UNION { [1..k -> X] : k \in 0..n }

NotCalled == [status |-> "none", unique |-> <<>>, value |-> <<>>]

InitCollect ==
    /\ fs = CollectFs
    /\ pc = "collect"
    /\ paths \in SeqsUpTo(CollectInputs, MaxInputs)
    /\ recursive \in BOOLEAN
    /\ unique_pdfs = <<>>
    /\ collected = NotCalled
    /\ MergeIdle
    /\ SplitIdle
    /\ AggIdle
    /\ fs_before = fs

\* one call of collect_pdfs(paths, recursive)
CollectPdfs ==
    /\ pc = "collect"
    /\ LET r == collect_pdfs(fs, paths, recursive)
       IN  /\ collected' = r
           /\ unique_pdfs' = r.unique
    /\ pc' = "collected"
    /\ UNCHANGED <<aggVars, fs, paths, recursive, mergeVars, splitVars, fs_before>>

(* -------------------- the filesystem of the merge runs ----------------- *)

P1_Pdf == <<112,49,46,112,100,102>>                \* "p1.pdf"
P2_Pdf == <<112,50,46,112,100,102>>                \* "p2.pdf"
Bad_Pdf == <<98,97,100,46,112,100,102>>            \* "bad.pdf"
Old_Pdf == <<111,108,100,46,112,100,102>>          \* "old.pdf"
M_Pdf == <<109,46,112,100,102>>                    \* "m.pdf"
NoDir == <<110,111>>                               \* "no"

Garbage == [kind |-> "garbage", pages |-> <<>>, complete |-> TRUE]
OldDocument == [kind |-> "pdf", pages |-> <<99>>, complete |-> TRUE]

MergeFs ==
    [dirs  |-> { <<>>, Cwd },
     files |-> [q \in { Cwd \o <<P1_Pdf>>, Cwd \o <<P2_Pdf>>, Cwd \o <<Bad_Pdf>>, Cwd \o <<Old_Pdf>> } |->
                  IF q = Cwd \o <<P1_Pdf>> THEN [kind |-> "pdf", pages |-> <<11>>, complete |-> TRUE]
                  ELSE IF q = Cwd \o <<P2_Pdf>> THEN [kind |-> "pdf", pages |-> <<21, 22>>, complete |-> TRUE]
                  ELSE IF q = Cwd \o <<Bad_Pdf>> THEN Garbage
                  ELSE OldDocument]]

MergeInputs ==
    { Abs(Cwd \o <<P1_Pdf>>), Abs(Cwd \o <<P2_Pdf>>), Abs(Cwd \o <<Bad_Pdf>>),
      Abs(Cwd \o <<Missing_Pdf>>) }

MergeOutputs ==
    { Abs(Cwd \o <<M_Pdf>>), Abs(Cwd \o <<Old_Pdf>>), Abs(Cwd \o <<NoDir, M_Pdf>>) }

InitMerge ==
    /\ fs = MergeFs
    /\ pc = "merge"
    /\ paths = <<>>
    /\ recursive = FALSE
    /\ unique_pdfs = <<>>
    /\ collected = NotCalled
    /\ input_paths \in SeqsUpTo(MergeInputs, MaxMergeInputs)
    /\ output_path \in MergeOutputs
    /\ overwrite \in BOOLEAN
    /\ output_pdf = NoDocument
    /\ open_inputs = {}
    /\ idx = 0
    /\ merge_result = "none"
    /\ SplitIdle
    /\ AggIdle
    /\ fs_before = fs

NextMerge ==
    \/ MergeCheck
    \/ MergeOpenOutput
    \/ MergeOpenInput
    \/ MergeOpenInputFail
    \/ MergeInsert
    \/ MergeCloseInput
    \/ MergeSave
    \/ MergeSaveInterrupted
    \/ MergeSaveRefused
    \/ MergeFinally


(* ------------------- the filesystem of the split runs ------------------ *)

Doc_Pdf == <<100,111,99,46,112,100,102>>           \* "doc.pdf"
R2_PDF == <<82,50,46,80,68,70>>                    \* "R2.PDF"
ZZ_Txt == <<122,122,46,116,120,116>>               \* "zz.txt"
O == <<111>>                                       \* "o"

\* the pages of the source document: n pages, each with its own content
SourcePages(n) == [i \in 1..n |-> 100 + i]

SplitFs(n, dirs) ==
    [dirs  |-> { <<>>, Cwd } \cup dirs,
     files |-> [q \in { Cwd \o <<Doc_Pdf>>, Cwd \o <<R2_PDF>>, Cwd \o <<N_Txt>>,
                        Cwd \o <<Bad_Pdf>>, Cwd \o <<Old_Pdf>> } |->
                  IF q \in { Cwd \o <<Doc_Pdf>>, Cwd \o <<R2_PDF>> }
                  THEN [kind |-> "pdf", pages |-> SourcePages(n), complete |-> TRUE]
                  \* a document without pages under a name that is not .pdf
                  ELSE IF q = Cwd \o <<N_Txt>>
                  THEN [kind |-> "pdf", pages |-> <<>>, complete |-> TRUE]
                  ELSE IF q = Cwd \o <<Bad_Pdf>> THEN Garbage
                  ELSE OldDocument]]

SplitSources ==
    { Rel(<<Doc_Pdf>>), Abs(Cwd \o <<R2_PDF>>), Rel(<<N_Txt>>), Rel(<<Bad_Pdf>>),
      Rel(<<Missing_Pdf>>), Rel(<<ZZ_Txt>>) }

\* an output directory and the directories that exist before the call: the
\* directory itself, empty; nothing; not even its parent
SplitOutputs ==
    { [dir |-> Rel(<<O>>), dirs |-> { Cwd \o <<O>> }],
      [dir |-> Rel(<<O>>), dirs |-> {}],
      [dir |-> Abs(Cwd \o <<NoDir, O>>), dirs |-> {}] }

InitRoundTrip ==
    /\ \E n \in 0..MaxPages : \E o \in SplitOutputs :
          /\ fs = SplitFs(n, o.dirs)
          /\ output_dir = o.dir
    /\ pc = "split"
    /\ source_path \in SplitSources
    /\ reader = NoDocument
    /\ page_number = 0
    /\ generated_files = <<>>
    /\ split_result = [type |-> "none", msg |-> ""]
    /\ paths = <<>>
    /\ recursive \in BOOLEAN
    /\ unique_pdfs = <<>>
    /\ collected = NotCalled
    /\ input_paths = <<>>
    /\ output_path \in { Abs(Cwd \o <<M_Pdf>>), Abs(Cwd \o <<Old_Pdf>>) }
    /\ overwrite \in BOOLEAN
    /\ output_pdf = NoDocument
    /\ open_inputs = {}
    /\ idx = 0
    /\ merge_result = "none"
    /\ AggIdle
    /\ fs_before = fs

NextRoundTrip ==
    \/ SplitCheck
    \/ SplitMkdir
    \/ SplitPage
    \/ SplitPageSaveFails
    \/ SplitReturn
    \/ RunCombine
    \/ CollectPdfs
    \/ MainMerge
    \/ MergeCheck
    \/ MergeOpenOutput
    \/ MergeOpenInput
    \/ MergeInsert
    \/ MergeCloseInput
    \/ MergeSave
    \/ MergeSaveInterrupted
    \/ MergeFinally


(* ----------------- the filesystem of the aggregation runs -------------- *)

Output_All == <<111,117,116,112,117,116,95,97,108,108>>                     \* "output_all"
Clean3 == <<99,108,101,97,110,95,51,95,114,101,115,46,106,115,111,110>>      \* "clean_3_res.json"
Page10 == <<112,97,103,101,49,48,95,114,101,115,46,106,115,111,110>>         \* "page10_res.json"
X_Res == <<120,95,114,101,115,46,106,115,111,110>>                           \* "x_res.json"
Y3_7 == <<121,51,95,55,95,114,101,115,46,106,115,111,110>>                   \* "y3_7_res.json"
Sup_5 == <<178,95,53,95,114,101,115,46,106,115,111,110>>                     \* superscript 2, "_5_res.json"
Notes_Txt == <<110,111,116,101,115,95,114,101,115,46,116,120,116>>           \* "notes_res.txt"

ResultNames == { Clean3, Page10, X_Res, Y3_7, Sup_5 }

\* what a result file may hold: text that does not parse, a JSON array, a
\* JSON object
ResultTypes == { "malformed", "array", "object" }

\* the content of a result file of a type: the objects written for
\* "clean_3" and "y3_7" report their page_index and input_path, the others
\* report none
ResultContent(name, type) ==
    [type       |-> type,
     has_index  |-> type = "object" /\ name \in { Clean3, Y3_7 },
     page_index |-> IF type # "object" THEN 0
                    ELSE IF name = Clean3 THEN 3 ELSE IF name = Y3_7 THEN 7 ELSE 0,
     input_path |-> IF type = "object" /\ name \in { Clean3, Y3_7 } THEN "doc.pdf" ELSE ""]

AggFs(types) ==
    [dirs  |-> { <<>>, Cwd, Cwd \o <<Output_All>> },
     files |-> [q \in { Cwd \o <<Output_All, n>> : n \in DOMAIN types \cup {Notes_Txt} } |->
                  IF q[Len(q)] = Notes_Txt
                  THEN ResultContent(Notes_Txt, "malformed")
                  ELSE ResultContent(q[Len(q)], types[q[Len(q)]])]]

InitAggregate ==
    /\ \E names \in { X \in SUBSET ResultNames : Cardinality(X) <= MaxResultFiles } :
          \E types \in [names -> ResultTypes] : fs = AggFs(types)
    /\ pc = "aggregate"
    /\ input_dir = Rel(<<Output_All>>)
    /\ discovered = <<>>
    /\ json_files = <<>>
    /\ combined_data = NoData
    /\ file_i = 0
    /\ agg_result = "none"
    /\ paths = <<>>
    /\ recursive = FALSE
    /\ unique_pdfs = <<>>
    /\ collected = NotCalled
    /\ MergeIdle
    /\ SplitIdle
    /\ fs_before = fs

NextAggregate ==
    \/ AggNoFiles
    \/ AggDiscover
    \/ AggAppend
    \/ AggSkip
    \/ AggWrite
    \/ AggWriteFails


(* ------------------------- claims on collect_pdfs ---------------------- *)

HasDuplicate(s) == \E i, j \in 1..Len(s) : i # j /\ s[i] = s[j]

\* C1: the list collect_pdfs returns is unique by canonical path: no two of
\* its elements resolve to the same file, also when one file was supplied
\* under two spellings.
C1_UniqueByCanonicalPath ==
    collected.status = "ok" =>
        ~HasDuplicate([i \in 1..Len(collected.value) |-> resolve(collected.value[i])])

\* the natural order as the claim words it: the stem in alternating runs, the
\* digit runs as integers, the text runs without regard to case
ClaimKey(p) ==
    LET runs == re_split(path_stem(p))
    IN  [i \in 1..Len(runs) |->
            IF i % 2 = 0 THEN [t |-> "int", v |-> int_of(runs[i])]
                         ELSE [t |-> "str", v |-> str_lower(runs[i])]]

\* the elements of q whose key (in keys, place by place) is v, in order
RECURSIVE WithKey(_, _, _, _)
WithKey(q, keys, v, k) ==
    IF k > Len(q) THEN <<>>
    ELSE IF keys[k] = v THEN <<q[k]>> \o WithKey(q, keys, v, k + 1)
    ELSE WithKey(q, keys, v, k + 1)

\* s holds the elements of u in natural order, equal keys in the order of u
InNaturalOrder(s, u) ==
    /\ Len(s) = Len(u)
    /\ \A ks \in { [i \in 1..Len(s) |-> ClaimKey(s[i])] } :
       \A ku \in { [i \in 1..Len(u) |-> ClaimKey(u[i])] } :
          /\ \A i, j \in 1..Len(s) : i < j => ~KeyLess(ks[j], ks[i])
          /\ \A x \in 1..Len(u) : WithKey(s, ks, ku[x], 1) = WithKey(u, ku, ku[x], 1)

PageFile(name) == Abs(Cwd \o <<D, name>>)

\* C2: the list collect_pdfs returns is in natural order of the filename
\* stems (digit runs as integers, text case-insensitively, a proper prefix
\* first), files with equal keys keep their relative order, and page_2
\* precedes page_9 precedes page_10 whatever the input order.
C2_NaturalOrder ==
    collected.status = "ok" =>
        /\ InNaturalOrder(collected.value, unique_pdfs)
        /\ \A pr \in { <<A_Page2, A_Page9>>, <<A_Page9, A_Page10>>, <<A_Page2, A_Page10>> } :
              (InSeq(PageFile(pr[1]), collected.value) /\ InSeq(PageFile(pr[2]), collected.value))
                  => \A i, j \in 1..Len(collected.value) :
                        (collected.value[i] = PageFile(pr[1]) /\ collected.value[j] = PageFile(pr[2]))
                            => i < j

\* page_10, page_9 and page_2 given in that order come back as 2, 9, 10
C2_Witness ==
    /\ collected.status = "ok"
    /\ paths = <<Rel(<<D, A_Page10>>), Rel(<<D, A_Page9>>), Rel(<<D, A_Page2>>)>>
    /\ collected.value = <<PageFile(A_Page2), PageFile(A_Page9), PageFile(A_Page10)>>


(* -------------------------- claims on merge_pdfs ----------------------- *)

Absent == [kind |-> "absent", pages |-> <<>>, complete |-> FALSE]

\* what a path holds: the content of the file there, or Absent
Holds(f, p) ==
    IF resolve(p).parts \in DOMAIN f.files THEN f.files[resolve(p).parts] ELSE Absent

\* the pages of the first n inputs, in list order, as the filesystem f has them
RECURSIVE Concatenated(_, _, _)
Concatenated(f, ins, n) ==
    IF n = 0 THEN <<>> ELSE Concatenated(f, ins, n - 1) \o pages_of(f, ins[n])

MergeCalled == merge_result # "none"

\* C4: merge_pdfs never leaves a half-written file visible at the output
\* path: at every moment the output path holds either what it held before
\* the call or the complete merged document.
C4_NoHalfWrittenOutput ==
    MergeCalled =>
        \/ Holds(fs, output_path) = Holds(fs_before, output_path)
        \/ /\ merge_result = "ok"
           /\ Holds(fs, output_path) =
                 [kind |-> "pdf", complete |-> TRUE,
                  pages |-> Concatenated(fs_before, input_paths, Len(input_paths))]

\* C5: with an empty input list merge_pdfs raises ValueError (EmptyInputError),
\* also when the output exists and overwrite is false; with inputs, an existing
\* output and overwrite false it raises FileExistsError (OutputExistsError);
\* in both cases the filesystem is left as it was.
C5_RefusalLeavesFilesystem ==
    MergeCalled =>
        /\ (input_paths = <<>>) <=> (merge_result = "ValueError")
        /\ (input_paths # <<>> /\ exists(fs_before, output_path) /\ ~overwrite)
              <=> (merge_result = "FileExistsError")
        /\ merge_result \in {"ValueError", "FileExistsError"} =>
              (fs = fs_before /\ pc = "merge_done" /\ ~output_pdf.open)

\* both conditions hold at once and the empty-input error is the one raised
C5_Witness ==
    /\ merge_result = "ValueError"
    /\ exists(fs, output_path)
    /\ ~overwrite
    /\ pc = "merge_done"

\* C10: at most one input document is open at any time, and it is the one
\* being processed; the output holds the pages of the inputs processed so
\* far in list order; once merge_pdfs has returned or raised, no document
\* is open.
C10_OneInputOpenAtATime ==
    /\ Cardinality(open_inputs) <= 1
    /\ open_inputs \subseteq {idx}
    /\ (open_inputs # {}) => output_pdf.open
    /\ pc \in {"merge_loop", "merge_insert"} =>
          output_pdf.pages = Concatenated(fs, input_paths, idx - 1)
    /\ pc = "merge_exit_with" =>
          output_pdf.pages = Concatenated(fs, input_paths, idx)
    /\ pc = "merge_done" => (open_inputs = {} /\ ~output_pdf.open)

\* the third input is open after the first two were inserted and released
C10_Witness ==
    /\ pc = "merge_insert"
    /\ idx = 3
    /\ open_inputs = {3}
    /\ output_pdf.open
    /\ Len(output_pdf.pages) >= 2

(* --------------------- claims on split_pdf and the round trip ---------- *)

SplitCalled == split_result.type # "none"

\* the name split_pdf is to give page i (1-based) of the source
PageName(i) == path_stem(source_path) \o Page_ \o str_of(i) \o DotPdf

\* the files below the output directory
InOutputDir(f) ==
    LET base == resolve(output_dir).parts
    IN  { q \in DOMAIN f.files : Len(q) > Len(base) /\ SubSeq(q, 1, Len(base)) = base }

\* C3: split_pdf of a document of N >= 1 pages into an empty (or absent)
\* directory writes exactly the N single-page files <stem>_page_1 ..
\* <stem>_page_N and returns them in page order; collect_pdfs on that
\* directory returns them in page order; merge_pdfs of that list writes a
\* document whose pages are the pages of the source, in order.
C3_SplitMergeRoundTrip ==
    split_result = Ok =>
        LET src == pages_of(fs, source_path)
        IN  /\ Len(src) >= 1
            /\ Len(generated_files) = Len(src)
            /\ \A i \in 1..Len(src) :
                  /\ generated_files[i] =
                        [abs |-> output_dir.abs, parts |-> Append(output_dir.parts, PageName(i))]
                  /\ Holds(fs, generated_files[i]) =
                        [kind |-> "pdf", pages |-> <<src[i]>>, complete |-> TRUE]
            /\ InOutputDir(fs) = { resolve(generated_files[i]).parts : i \in 1..Len(src) }
            /\ collected.status # "none" =>
                  /\ collected.status = "ok"
                  /\ collected.value = [i \in 1..Len(src) |-> resolve(generated_files[i])]
            /\ merge_result = "ok" =>
                  Holds(fs, output_path) = [kind |-> "pdf", pages |-> src, complete |-> TRUE]

\* a document of ten pages or more went through split, collect and merge
C3_Witness ==
    /\ pc = "merge_done"
    /\ merge_result = "ok"
    /\ split_result = Ok
    /\ Len(generated_files) >= 10

\* the precondition of split_pdf that a source fails first
SplitCause(f, src) ==
    IF ~exists(f, src) THEN "missing"
    ELSE IF str_lower(path_suffix(src)) # DotPdf THEN "format"
    ELSE IF can_open(f, src) /\ Len(pages_of(f, src)) = 0 THEN "empty"
    ELSE "other"

Preconditions == {"missing", "format", "empty"}

\* C9 as stated: a missing source, a source that is not a .pdf and a document
\* without pages are refused, in that order, with three distinguishable error
\* kinds (no two of the three preconditions raise the same kind), and nothing
\* has been created when they are.
C9_ThreeErrorKinds ==
    (SplitCalled /\ SplitCause(fs_before, source_path) \in Preconditions) =>
        /\ fs = fs_before
        /\ split_result.type \in {"FileNotFoundError", "ValueError"}
        /\ \A other \in SplitSources :
              (/\ SplitCause(fs_before, other) \in Preconditions
               /\ SplitCause(fs_before, other) # SplitCause(fs_before, source_path))
                  => split_precheck(fs_before, other).type # split_result.type

\* C9 as amended: a missing source raises FileNotFoundError, a source that is
\* not a .pdf raises ValueError, a document without pages raises ValueError
\* with another message; the checks are made in that order, and in each case
\* the filesystem is as it was: no output directory, no page file.
C9_PreconditionsBeforeOutput ==
    SplitCalled =>
        LET c == SplitCause(fs_before, source_path)
        IN  /\ c = "missing" =>
                  split_result = [type |-> "FileNotFoundError", msg |-> "Input file not found"]
            /\ c = "format" =>
                  split_result = [type |-> "ValueError", msg |-> "Input file must have a .pdf extension"]
            /\ c = "empty" =>
                  split_result = [type |-> "ValueError", msg |-> "The PDF contains no pages to split"]
            /\ c \in Preconditions =>
                  /\ pc = "split_done"
                  /\ fs = fs_before
                  /\ generated_files = <<>>
                  /\ ~exists(fs, output_dir) \/ exists(fs_before, output_dir)
            /\ split_result.type \in {"FileNotFoundError", "ValueError"} => c \in Preconditions

\* a document without pages under a name that is not .pdf is refused for its
\* name, and the absent output directory was not created
C9_Witness ==
    /\ pc = "split_done"
    /\ source_path = Rel(<<N_Txt>>)
    /\ Len(pages_of(fs, source_path)) = 0
    /\ split_result.type = "ValueError"
    /\ ~exists(fs, output_dir)


(* ------------------ claims on combine_ocr_json_files ------------------- *)

\* the aggregate document at output_file, once written
Written == Holds(fs, output_file).doc

\* C6: in every aggregate document written, document_info.total_pages equals
\* the length of the pages sequence, also when files were skipped.
C6_TotalPagesIsLength ==
    agg_result = "written" => Written.document_info.total_pages = Len(Written.pages)

PlaceIn(s, x) == CHOOSE k \in 1..Len(s) : s[k] = x

\* the page number as C7 states it: the value of the first run of digits in
\* the filename, and the position in discovery order (0-based) without one
StatedPageNumber(json_file) ==
    LET runs == re_split(path_name(json_file))
    IN  IF Len(runs) >= 2 THEN int_of(runs[2]) ELSE PlaceIn(discovered, json_file) - 1

\* the page number as amended: the value of the first part between
\* underscores that is all digits; zero without one, zero when it is no
\* decimal numeral
FirstDigitPart(json_file) ==
    LET parts == str_split(path_name(json_file))
    IN  IF \E k \in 1..Len(parts) : str_isdigit(parts[k])
        THEN LET first == CHOOSE k \in 1..Len(parts) :
                             /\ str_isdigit(parts[k])
                             /\ \A m \in 1..(k - 1) : ~str_isdigit(parts[m])
             IN  IF \A m \in 1..Len(parts[first]) : parts[first][m] \in 48..57
                 THEN int_of(parts[first]) ELSE 0
        ELSE 0

FileOf(record) == [abs |-> input_dir.abs, parts |-> Append(input_dir.parts, record.source_file)]

\* s holds the elements of d, ascending by Key, equal keys in the order of d
StablySortedBy(s, d, Key(_)) ==
    /\ Len(s) = Len(d)
    /\ \A ks \in { [k \in 1..Len(s) |-> Key(s[k])] } :
       \A kd \in { [k \in 1..Len(d) |-> Key(d[k])] } :
          /\ \A a \in 1..(Len(s) - 1) : ks[a] <= ks[a + 1]
          /\ \A x \in 1..Len(d) : WithKey(s, ks, kd[x], 1) = WithKey(d, kd, kd[x], 1)

\* C7 as stated: the page number of a result file, as sort key and as the
\* record's page_number, is the value of the first run of digits in the
\* filename, and the file's position in discovery order without one.
C7_FirstDigitRunOrPosition ==
    agg_result \in {"running", "written", "write_failed"} =>
        /\ \A a, b \in 1..Len(json_files) :
              a < b => StatedPageNumber(json_files[a]) <= StatedPageNumber(json_files[b])
        /\ \A k \in 1..Len(combined_data.pages) :
              combined_data.pages[k].page_number = StatedPageNumber(FileOf(combined_data.pages[k]))

\* C7 as amended: the page number is the value of the first underscore-
\* delimited part of the filename that is all digits, and zero when there is
\* none (or int() rejects it); the files are stably sorted by it.
C7_FirstDigitPartOrZero ==
    agg_result \in {"running", "written", "write_failed"} =>
        /\ StablySortedBy(json_files, discovered, FirstDigitPart)
        /\ \A k \in 1..Len(combined_data.pages) :
              combined_data.pages[k].page_number = FirstDigitPart(FileOf(combined_data.pages[k]))

\* "y3_7_res.json" is page 7 and "x_res.json", not listed first, is page 0
C7_Witness ==
    /\ agg_result = "written"
    /\ Len(discovered) >= 2
    /\ path_name(discovered[1]) # X_Res
    /\ \E a, b \in 1..Len(Written.pages) :
          /\ Written.pages[a].source_file = Y3_7 /\ Written.pages[a].page_number = 7
          /\ Written.pages[b].source_file = X_Res /\ Written.pages[b].page_number = 0

\* the files among the first n of s whose content is of one of the types
\* given, each with its payload
RECURSIVE Kept(_, _, _)
Kept(s, n, types) ==
    IF n = 0 THEN <<>>
    ELSE IF Holds(fs, s[n]).type \in types
         THEN Append(Kept(s, n - 1, types),
                     [source_file |-> path_name(s[n]), ocr_data |-> Holds(fs, s[n])])
         ELSE Kept(s, n - 1, types)

Provenance(pages) ==
    [k \in 1..Len(pages) |-> [source_file |-> pages[k].source_file, ocr_data |-> pages[k].ocr_data]]

\* what a file that parses holds, and what a file the loop accepts holds
Parses == {"array", "object"}
ParsesToObject == {"object"}

\* C8 as stated: the pages are the page-number-sorted list of the discovered
\* files with the files that failed to parse removed, one record per
\* remaining file, in that order, its payload passed through as ocr_data.
C8_ParseFailuresRemoved ==
    agg_result \in {"running", "written", "write_failed"} =>
        Provenance(combined_data.pages) = Kept(json_files, file_i, Parses)

\* C8 as amended: the files removed are those that failed to parse and those
\* whose JSON value is no object; the run goes through every file, and the
\* document written holds the records of all the others, in sorted order.
C8_FailuresIsolated ==
    /\ agg_result \in {"running", "written", "write_failed"} =>
          /\ StablySortedBy(json_files, discovered, extract_page_number)
          /\ Provenance(combined_data.pages) = Kept(json_files, file_i, ParsesToObject)
    /\ agg_result \in {"written", "write_failed"} => file_i = Len(json_files)
    /\ agg_result = "written" =>
          Provenance(Written.pages) = Kept(json_files, Len(json_files), ParsesToObject)

\* three files, the second of them malformed, and the other two in the
\* document written
C8_Witness ==
    /\ agg_result = "written"
    /\ Len(json_files) = 3
    /\ Holds(fs, json_files[2]).type = "malformed"
    /\ Len(Written.pages) = 2
    /\ Written.pages[1].source_file = path_name(json_files[1])
    /\ Written.pages[2].source_file = path_name(json_files[3])


vars == <<fs, pc, paths, recursive, unique_pdfs, collected,
          input_paths, output_path, overwrite, output_pdf, open_inputs, idx, merge_result,
          source_path, output_dir, reader, page_number, generated_files, split_result,
          input_dir, discovered, json_files, combined_data, file_i, agg_result, fs_before>>

NextCollect == CollectPdfs

SpecCollect == InitCollect /\ [][NextCollect]_vars

SpecMerge == InitMerge /\ [][NextMerge]_vars

SpecRoundTrip == InitRoundTrip /\ [][NextRoundTrip]_vars

SpecAggregate == InitAggregate /\ [][NextAggregate]_vars

====
